---- MODULE Spec2Model ----
(***************************************************************************)
(* Model of homework.py: a bot that polls the homework-review API and      *)
(* relays status changes to one Telegram chat.                             *)
(*                                                                         *)
(* The program is one sequential loop (main).  Each action below is one    *)
(* step of main between two interactions with the outside world; the       *)
(* outside world (environment variables, clock, HTTP API, Telegram) picks  *)
(* its answers nondeterministically from small sets.                       *)
(***************************************************************************)
EXTENDS Integers, Sequences, FiniteSets, TLC

VARIABLES
    pc,                 \* position of main: start, exited, top, fetch, check,
                        \* loop, finally, sleep, crashed (or probe)
    cfg,                \* the three environment values read at import time
    now,                \* int(time.time())
    current_timestamp,  \* main's local variable
    error_message,      \* main's local variable; <<>> is the empty string
    response,           \* value returned by get_api_answer
    homeworks,          \* value returned by check_response
    idx,                \* position of the for-loop over homeworks (1-based)
    uncaught,           \* an exception no except clause of main matched
    exit_code,          \* exit status once the process has exited
    log,                \* history: what this cycle has done so far
    ts_start,           \* history: current_timestamp when this cycle began
    probe_in,           \* input of a stand-alone call of parse_status
    probe_out,          \* its result
    request,            \* history: this cycle's HTTP exchange and when the
                        \* request was issued
    probe_again,        \* result of a second stand-alone call of parse_status
                        \* on the same input
    anchor,             \* history: the clock when main started or when the
                        \* last cycle without error assigned the timestamp
    prev                \* history: what the previous cycle asked for and the
                        \* first record it delivered (kept in DupSpec only)

vars == <<pc, cfg, now, current_timestamp, error_message, response, homeworks,
          idx, uncaught, exit_code, log, ts_start, probe_in, probe_out, request, probe_again, anchor, prev>>

(***************************************************************************)
(* Bounds                                                                  *)
(***************************************************************************)
MaxHw == 3          \* longest homeworks list the API returns
MaxTime == 1210     \* the clock stops advancing here

(***************************************************************************)
(* Program constants                                                       *)
(***************************************************************************)
RETRY_TIME == 600

HTTP_OK == 200

\* Python's None; also what dict.get returns for a key that is absent.
None == "None"
\* A key that the JSON object does not have.
Absent == "<absent>"
\* A JSON value that is not hashable in Python (an array or an object).
Unhashable == "<array>"

TokenNames == {"PRACTICUM_TOKEN", "TELEGRAM_TOKEN", "TELEGRAM_CHAT_ID"}

\* HOMEWORK_STATUSES (verdict texts rendered in English).
HOMEWORK_STATUSES ==
    [approved  |-> "Reviewed: the reviewer liked everything. Hooray!",
     reviewing |-> "Taken into review by the reviewer.",
     rejected  |-> "Reviewed: the reviewer has remarks."]

Min(a, b) == IF a < b THEN a ELSE b

(***************************************************************************)
(* Python helpers                                                          *)
(***************************************************************************)
\* bool(x) of an environment value: None and "" are falsy.
Truthy(x) == x # None /\ x # ""

\* d.get(key) on a parsed JSON object: None when the key is absent, else the
\* value (which is None as well when the JSON value is null).
DictGet(v) == IF v = Absent THEN None ELSE v

\* Results of a call: a returned value or a raised exception.
Returned(v) == [exc |-> "none", val |-> v]
Raised(e) == [exc |-> e, val |-> <<>>]

(***************************************************************************)
(* send_message: the bot either delivers or raises                         *)
(* telegram.error.TelegramError, which is re-raised as the repository's    *)
(* own TelegramError.                                                      *)
(***************************************************************************)
BotOutcomes == {"ok", "telegram.error.TelegramError"}

send_message(message, bot_result) ==
    IF bot_result = "telegram.error.TelegramError"
    THEN "TelegramError"
    ELSE "none"

(***************************************************************************)
(* get_api_answer                                                          *)
(***************************************************************************)
\* Mutant: the request always asks from the current time.
FromDateNow(ts, t) == t

\* timestamp = current_timestamp or int(time.time())
FromDate(ts, t) == IF ts = 0 THEN t ELSE ts

\* Mutant: the body is decoded before the status code is looked at.
get_api_answerDecodeFirst(http) ==
    IF http.net # "ok"
    THEN Raised("APIResponseError")
    ELSE IF ~http.body.json
    THEN Raised("APIResponseError")
    ELSE IF http.status_code # HTTP_OK
    THEN Raised("APIStatusCodeError")
    ELSE Returned(http.body.val)

\* Mutant: the status code is not looked at.
get_api_answerAnyStatus(http) ==
    IF http.net # "ok"
    THEN Raised("APIResponseError")
    ELSE IF ~http.body.json
    THEN Raised("APIResponseError")
    ELSE Returned(http.body.val)

\* http = [net, status_code, body]; body = [json, val]
get_api_answer(http) ==
    IF http.net # "ok"
    THEN Raised("APIResponseError")          \* RequestException
    ELSE IF http.status_code # HTTP_OK
    THEN Raised("APIStatusCodeError")
    ELSE IF ~http.body.json
    THEN Raised("APIResponseError")          \* JSONDecodeError
    ELSE Returned(http.body.val)

(***************************************************************************)
(* check_response                                                          *)
(***************************************************************************)
\* A parsed body is [isdict, homeworks]; homeworks is [type, items] with
\* type one of absent, null, string, array.
HwIsNone(h) == h.type \in {"absent", "null"}

\* Mutant: "if not homeworks" instead of "if homeworks is None".
check_responseFalsy(resp) ==
    IF ~resp.isdict
    THEN Raised("TypeError")
    ELSE IF HwIsNone(resp.homeworks) \/ resp.homeworks.items = <<>>
    THEN Raised("KeyError")
    ELSE IF resp.homeworks.type # "array"
    THEN Raised("TypeError")
    ELSE Returned(resp.homeworks.items)

\* Mutant: response.get('homeworks', []) makes an absent key an empty list.
check_responseDefault(resp) ==
    IF ~resp.isdict
    THEN Raised("TypeError")
    ELSE IF resp.homeworks.type = "absent"
    THEN Returned(<<>>)
    ELSE IF HwIsNone(resp.homeworks)
    THEN Raised("KeyError")
    ELSE IF resp.homeworks.type # "array"
    THEN Raised("TypeError")
    ELSE Returned(resp.homeworks.items)

\* Mutant: records that are not mappings are dropped from the list.
check_responseFiltering(resp) ==
    IF ~resp.isdict
    THEN Raised("TypeError")
    ELSE IF HwIsNone(resp.homeworks)
    THEN Raised("KeyError")
    ELSE IF resp.homeworks.type # "array"
    THEN Raised("TypeError")
    ELSE Returned(SelectSeq(resp.homeworks.items, LAMBDA h : h.isdict))

check_response(resp) ==
    IF ~resp.isdict
    THEN Raised("TypeError")
    ELSE IF HwIsNone(resp.homeworks)
    THEN Raised("KeyError")
    ELSE IF resp.homeworks.type # "array"
    THEN Raised("TypeError")
    ELSE Returned(resp.homeworks.items)

(***************************************************************************)
(* parse_status                                                            *)
(***************************************************************************)
\* Mutant: the message carries the verdict only.
StatusMessageNoName(name, verdict) == <<"Homework status changed", verdict>>

\* A homework is [isdict, homework_name, status].
StatusMessage(name, verdict) == <<"Homework status changed", name, verdict>>

\* Mutant: an unknown status raises KeyError like a missing field.
parse_statusKeyError(homework) ==
    IF ~homework.isdict
    THEN Raised("AttributeError")
    ELSE LET name == DictGet(homework.homework_name)
             status == DictGet(homework.status)
         IN IF name = None
            THEN Raised("KeyError")
            ELSE IF status = None
            THEN Raised("KeyError")
            ELSE IF status = Unhashable
            THEN Raised("TypeError")
            ELSE IF status \notin DOMAIN HOMEWORK_STATUSES
            THEN Raised("KeyError")
            ELSE Returned(StatusMessage(name, HOMEWORK_STATUSES[status]))

\* Mutant: the catalog is consulted before the fields are checked.
parse_statusLookupFirst(homework) ==
    IF ~homework.isdict
    THEN Raised("AttributeError")
    ELSE LET name == DictGet(homework.homework_name)
             status == DictGet(homework.status)
         IN IF status = Unhashable
            THEN Raised("TypeError")
            ELSE IF status \notin DOMAIN HOMEWORK_STATUSES
            THEN Raised("TypeError")
            ELSE IF name = None
            THEN Raised("KeyError")
            ELSE Returned(StatusMessage(name, HOMEWORK_STATUSES[status]))

parse_status(homework) ==
    IF ~homework.isdict
    THEN Raised("AttributeError")            \* homework.get does not exist
    ELSE LET name == DictGet(homework.homework_name)
             status == DictGet(homework.status)
         IN IF name = None
            THEN Raised("KeyError")
            ELSE IF status = None
            THEN Raised("KeyError")
            ELSE IF status = Unhashable
            THEN Raised("TypeError")         \* dict.get of an unhashable key
            ELSE IF status \notin DOMAIN HOMEWORK_STATUSES
            THEN Raised("TypeError")
            ELSE Returned(StatusMessage(name, HOMEWORK_STATUSES[status]))

(***************************************************************************)
(* check_tokens                                                            *)
(***************************************************************************)
\* Mutant: the chat id is not among the checked values.
check_tokensNoChat(c) == \A k \in TokenNames \ {"TELEGRAM_CHAT_ID"} : Truthy(c[k])

check_tokens(c) == \A k \in TokenNames : Truthy(c[k])

(***************************************************************************)
(* main: the except clauses, in the order of the source                    *)
(***************************************************************************)
PyExceptions == {"TelegramError", "APIResponseError", "APIStatusCodeError",
                 "KeyError", "TypeError", "AttributeError"}

\* Mutant: main without its last clause, "except Exception".
ExceptClauseNoCatchAll(exc) ==
    IF exc = "TelegramError"
    THEN <<"Telegram bot error", exc>>
    ELSE IF exc \in {"APIResponseError", "APIStatusCodeError"}
    THEN <<"API service error", exc>>
    ELSE IF exc \in {"KeyError", "TypeError"}
    THEN <<"Malformed API response", exc>>
    ELSE <<>>

\* The message the matching clause assigns; <<>> when no clause matches.
ExceptClause(exc) ==
    IF exc = "TelegramError"
    THEN <<"Telegram bot error", exc>>
    ELSE IF exc \in {"APIResponseError", "APIStatusCodeError"}
    THEN <<"API service error", exc>>
    ELSE IF exc \in {"KeyError", "TypeError"}
    THEN <<"Malformed API response", exc>>
    ELSE IF exc \in PyExceptions
    THEN <<"Unexpected failure", exc>>
    ELSE <<>>

\* Mutant: the error report is not wrapped in try/except.
ReportCaughtNothing(exc) == FALSE

\* The except clause around the error report in the finally block.
ReportCaught(exc) == exc = "TelegramError"

(***************************************************************************)
(* Inputs                                                                  *)
(***************************************************************************)
EnvValues == {None, "", "set"}

Hw(n, s) == [isdict |-> TRUE, homework_name |-> n, status |-> s]
NotADict == [isdict |-> FALSE, homework_name |-> Absent, status |-> Absent]

\* Records the API returns inside the loop.
Records ==
    { NotADict,
      Hw(Absent, "approved"),
      Hw("hw1", None),
      Hw("hw1", "lost"),
      Hw("hw1", "rejected"),
      Hw("hw1", "reviewing"),
      Hw("hw2", "approved") }

\* Records handed to a stand-alone call of parse_status.
ProbeNames == {Absent, None, "", "hw1", "hw2"}
ProbeStatuses == {Absent, None, "", Unhashable, "approved", "reviewing",
                  "rejected", "lost", "APPROVED", "pending", "Rejected"}
ProbeRecords == {NotADict} \cup {Hw(n, s) : n \in ProbeNames, s \in ProbeStatuses}

RECURSIVE SeqsUpTo(_, _)
SeqsUpTo(S, n) ==
    IF n = 0 THEN {<<>>}
    ELSE LET shorter == SeqsUpTo(S, n - 1)
         IN shorter \cup {Append(s, x) : s \in {t \in shorter : Len(t) = n - 1}, x \in S}

HwField(t, items) == [type |-> t, items |-> items]
Body(isdict, h) == [isdict |-> isdict, homeworks |-> h]

EmptyBody == Body(TRUE, HwField("array", <<>>))

Bodies ==
    { Body(FALSE, HwField("absent", <<>>)),
      Body(TRUE, HwField("absent", <<>>)),
      Body(TRUE, HwField("null", <<>>)),
      Body(TRUE, HwField("string", <<>>)) }
    \cup {Body(TRUE, HwField("array", s)) : s \in SeqsUpTo(Records, MaxHw)}

Json(v) == [json |-> TRUE, val |-> v]
NotJson == [json |-> FALSE, val |-> EmptyBody]

Http(net, code, body) == [net |-> net, status_code |-> code, body |-> body]

HttpOutcomes ==
    { Http("ConnectionError", 0, NotJson) }
    \cup {Http("ok", c, b) : c \in {404, 500}, b \in {NotJson, Json(EmptyBody)}}
    \cup {Http("ok", HTTP_OK, NotJson)}
    \cup {Http("ok", HTTP_OK, Json(v)) : v \in Bodies}

(***************************************************************************)
(* History                                                                 *)
(***************************************************************************)
Ev(ev, i, ok, msg) == [ev |-> ev, i |-> i, ok |-> ok, msg |-> msg]

NoResult == Raised("not called")

NoPrev == [delivered |-> FALSE, failed |-> FALSE, from_date |-> 0,
           first |-> NotADict]

NoRequest == [http |-> Http("not sent", 0, NotJson), issued |-> 0]

(***************************************************************************)
(* Init: the module has been imported, main has not started.               *)
(***************************************************************************)
Init ==
    /\ pc = "start"
    /\ cfg \in [TokenNames -> EnvValues]
    /\ now = 1
    /\ current_timestamp = 0
    /\ error_message = <<>>
    /\ response = EmptyBody
    /\ homeworks = <<>>
    /\ idx = 1
    /\ uncaught = FALSE
    /\ exit_code = 0
    /\ log = <<>>
    /\ ts_start = 0
    /\ probe_in = NotADict
    /\ probe_out = NoResult
    /\ request = NoRequest
    /\ probe_again = NoResult
    /\ anchor = 0
    /\ prev = NoPrev

\* Mutant: the timestamp starts at zero instead of the current time.
StartZero ==
    /\ pc = "start"
    /\ IF ~check_tokens(cfg)
       THEN /\ pc' = "exited"
            /\ exit_code' = 1
            /\ UNCHANGED <<current_timestamp, ts_start, anchor, prev>>
       ELSE /\ pc' = "top"
            /\ current_timestamp' = 0
            /\ ts_start' = 0
            /\ anchor' = now
            /\ UNCHANGED exit_code
    /\ UNCHANGED <<cfg, now, error_message, response, homeworks, idx,
                   uncaught, log, probe_in, probe_out, request, probe_again, prev>>

(***************************************************************************)
(* main, lines 141-151: check the tokens, create the bot, read the clock.  *)
(***************************************************************************)
Start ==
    /\ pc = "start"
    /\ IF ~check_tokens(cfg)
       THEN /\ pc' = "exited"
            /\ exit_code' = 1               \* sys.exit(<string>)
            /\ UNCHANGED <<current_timestamp, ts_start, anchor, prev>>
       ELSE /\ pc' = "top"
            /\ current_timestamp' = now
            /\ ts_start' = now
            /\ anchor' = now
            /\ UNCHANGED exit_code
    /\ UNCHANGED <<cfg, now, error_message, response, homeworks, idx,
                   uncaught, log, probe_in, probe_out, request, probe_again, prev>>

\* Mutant: error_message is initialised once, before the loop.
BeginCycleNoReset ==
    /\ pc = "top"
    /\ pc' = "fetch"
    /\ log' = <<>>
    /\ ts_start' = current_timestamp
    /\ response' = EmptyBody      \* the locals of the last cycle are dead
    /\ homeworks' = <<>>
    /\ idx' = 1
    /\ request' = NoRequest
    /\ UNCHANGED <<error_message, cfg, now, current_timestamp, uncaught,
                   exit_code, probe_in, probe_out, probe_again, anchor, prev>>

(***************************************************************************)
(* main, line 154: a cycle begins.                                         *)
(***************************************************************************)
BeginCycle ==
    /\ pc = "top"
    /\ pc' = "fetch"
    /\ error_message' = <<>>
    /\ log' = <<>>
    /\ ts_start' = current_timestamp
    /\ response' = EmptyBody      \* the locals of the last cycle are dead
    /\ homeworks' = <<>>
    /\ idx' = 1
    /\ request' = NoRequest
    /\ UNCHANGED <<cfg, now, current_timestamp, uncaught,
                   exit_code, probe_in, probe_out, probe_again, anchor, prev>>

\* The same step, remembering what the cycle that ends here delivered.
BeginCycleRemember ==
    /\ pc = "top"
    /\ pc' = "fetch"
    /\ error_message' = <<>>
    /\ log' = <<>>
    /\ ts_start' = current_timestamp
    /\ response' = EmptyBody      \* the locals of the last cycle are dead
    /\ homeworks' = <<>>
    /\ idx' = 1
    /\ request' = NoRequest
    /\ prev' = IF Len(homeworks) >= 1 /\ idx >= 2
               THEN [delivered |-> TRUE, failed |-> Len(error_message) # 0,
                     from_date |-> ts_start, first |-> homeworks[1]]
               ELSE NoPrev
    /\ UNCHANGED <<cfg, now, current_timestamp, uncaught,
                   exit_code, probe_in, probe_out, probe_again, anchor>>

\* An exception leaves the try block: the matching except clause runs.
Raise(exc, newlog) ==
    /\ error_message' = ExceptClause(exc)
    /\ uncaught' = (ExceptClause(exc) = <<>>)
    /\ log' = IF ExceptClause(exc) = <<>>
              THEN newlog
              ELSE Append(newlog, Ev("error", 0, FALSE, ExceptClause(exc)))
    /\ pc' = "finally"

(***************************************************************************)
(* main, line 156: get_api_answer(current_timestamp).  The request takes   *)
(* zero or one tick of the clock.                                          *)
(***************************************************************************)
Fetch ==
    /\ pc = "fetch"
    /\ \E http \in HttpOutcomes, dt \in 0..1 :
         LET r == get_api_answer(http)
             sent == Ev("fetch", FromDate(current_timestamp, now),
                        r.exc = "none", <<r.exc>>)
         IN /\ now' = Min(now + dt, MaxTime)
            /\ request' = [http |-> http, issued |-> now]
            /\ IF r.exc = "none"
               THEN /\ response' = r.val
                    /\ log' = Append(log, sent)
                    /\ pc' = "check"
                    /\ UNCHANGED <<error_message, uncaught>>
               ELSE /\ Raise(r.exc, Append(log, sent))
                    /\ UNCHANGED response
    /\ UNCHANGED <<cfg, current_timestamp, homeworks, idx, exit_code,
                   ts_start, probe_in, probe_out, probe_again, anchor, prev>>

(***************************************************************************)
(* main, lines 157-160: check_response(response).                          *)
(***************************************************************************)
Check ==
    /\ pc = "check"
    /\ LET r == check_response(response)
           ev == Ev("validate", 0, r.exc = "none", <<r.exc>>)
       IN IF r.exc = "none"
          THEN /\ homeworks' = r.val
               /\ idx' = 1
               /\ log' = Append(log, ev)
               /\ pc' = "loop"
               /\ UNCHANGED <<error_message, uncaught>>
          ELSE /\ Raise(r.exc, Append(log, ev))
               /\ UNCHANGED <<homeworks, idx>>
    /\ UNCHANGED <<cfg, now, current_timestamp, response, exit_code,
                   ts_start, probe_in, probe_out, request, probe_again, anchor, prev>>

\* Mutant: try/except inside the for-loop, a failing record is skipped.
ProcessHomeworkIsolated ==
    /\ pc = "loop"
    /\ idx <= Len(homeworks)
    /\ idx' = idx + 1
    /\ LET r == parse_status(homeworks[idx])
           fmt == Ev("format", idx, r.exc = "none", <<r.exc>>)
       IN IF r.exc # "none"
          THEN /\ error_message' = ExceptClause(r.exc)
               /\ log' = Append(Append(log, fmt),
                                Ev("error", 0, FALSE, ExceptClause(r.exc)))
          ELSE \E bot_result \in BotOutcomes :
                 LET s == send_message(r.val, bot_result)
                     l2 == Append(Append(log, fmt),
                                  Ev("notify", idx, s = "none", r.val))
                 IN IF s = "none"
                    THEN /\ log' = l2
                         /\ UNCHANGED error_message
                    ELSE /\ error_message' = ExceptClause(s)
                         /\ log' = Append(l2, Ev("error", 0, FALSE, ExceptClause(s)))
    /\ UNCHANGED <<pc, cfg, now, current_timestamp, response, homeworks,
                   uncaught, exit_code, ts_start, probe_in, probe_out, request, probe_again, anchor, prev>>

(***************************************************************************)
(* main, lines 162-164: one iteration of the for-loop.                     *)
(***************************************************************************)
ProcessHomework ==
    /\ pc = "loop"
    /\ idx <= Len(homeworks)
    /\ LET r == parse_status(homeworks[idx])
           fmt == Ev("format", idx, r.exc = "none", <<r.exc>>)
       IN IF r.exc # "none"
          THEN /\ Raise(r.exc, Append(log, fmt))
               /\ UNCHANGED idx
          ELSE \E bot_result \in BotOutcomes :
                 LET s == send_message(r.val, bot_result)
                     l2 == Append(Append(log, fmt),
                                  Ev("notify", idx, s = "none", r.val))
                 IN IF s = "none"
                    THEN /\ idx' = idx + 1
                         /\ log' = l2
                         /\ UNCHANGED <<pc, error_message, uncaught>>
                    ELSE /\ Raise(s, l2)
                         /\ UNCHANGED idx
    /\ UNCHANGED <<cfg, now, current_timestamp, response, homeworks,
                   exit_code, ts_start, probe_in, probe_out, request, probe_again, anchor, prev>>

\* Mutant: the assignment of line 166 is missing.
AdvanceStale ==
    /\ pc = "loop"
    /\ idx > Len(homeworks)
    /\ log' = Append(log, Ev("advance", now, TRUE, <<>>))
    /\ pc' = "finally"
    /\ UNCHANGED <<cfg, now, current_timestamp, error_message, response,
                   homeworks, idx, uncaught, exit_code, ts_start,
                   probe_in, probe_out, request, probe_again, anchor, prev>>

(***************************************************************************)
(* main, line 166: the for-loop is over, the timestamp advances.           *)
(***************************************************************************)
Advance ==
    /\ pc = "loop"
    /\ idx > Len(homeworks)
    /\ current_timestamp' = now
    /\ anchor' = now
    /\ log' = Append(log, Ev("advance", now, TRUE, <<>>))
    /\ pc' = "finally"
    /\ UNCHANGED <<cfg, now, error_message, response, homeworks, idx,
                   uncaught, exit_code, ts_start, probe_in, probe_out, request, probe_again, prev>>

\* Mutant: the timestamp is assigned in the finally block, error or not.
FinallyAdvancing ==
    /\ pc = "finally"
    /\ current_timestamp' = now
    /\ IF Len(error_message) # 0
       THEN \E bot_result \in BotOutcomes :
              LET s == send_message(error_message, bot_result)
              IN /\ log' = Append(log, Ev("report", 0, s = "none", error_message))
                 /\ pc' = IF s = "none" \/ ReportCaught(s)
                          THEN "sleep" ELSE "crashed"
       ELSE /\ pc' = "sleep"
            /\ UNCHANGED log
    /\ UNCHANGED <<cfg, now, error_message, response,
                   homeworks, idx, uncaught, exit_code, ts_start,
                   probe_in, probe_out, request, probe_again, anchor, prev>>

(***************************************************************************)
(* main, lines 175-181: the finally block up to the sleep.                 *)
(***************************************************************************)
Finally ==
    /\ pc = "finally"
    /\ IF Len(error_message) # 0
       THEN \E bot_result \in BotOutcomes :
              LET s == send_message(error_message, bot_result)
              IN /\ log' = Append(log, Ev("report", 0, s = "none", error_message))
                 /\ pc' = IF s = "none" \/ ReportCaught(s)
                          THEN "sleep" ELSE "crashed"
       ELSE /\ pc' = "sleep"
            /\ UNCHANGED log
    /\ UNCHANGED <<cfg, now, current_timestamp, error_message, response,
                   homeworks, idx, uncaught, exit_code, ts_start,
                   probe_in, probe_out, request, probe_again, anchor, prev>>

\* Mutant: after an error the loop continues without sleeping.
SleepOnlyOnSuccess ==
    /\ pc = "sleep"
    /\ IF Len(error_message) # 0
       THEN UNCHANGED <<now, log>>
       ELSE /\ now' = Min(now + RETRY_TIME, MaxTime)
            /\ log' = Append(log, Ev("sleep", RETRY_TIME, TRUE, <<>>))
    /\ pc' = IF uncaught THEN "crashed" ELSE "top"
    /\ UNCHANGED <<cfg, current_timestamp, error_message, response,
                   homeworks, idx, uncaught, exit_code, ts_start,
                   probe_in, probe_out, request, probe_again, anchor, prev>>

(***************************************************************************)
(* main, line 183: time.sleep(RETRY_TIME); an exception that no clause     *)
(* matched leaves main once the finally block is over.                     *)
(***************************************************************************)
Sleep ==
    /\ pc = "sleep"
    /\ now' = Min(now + RETRY_TIME, MaxTime)
    /\ log' = Append(log, Ev("sleep", RETRY_TIME, TRUE, <<>>))
    /\ pc' = IF uncaught THEN "crashed" ELSE "top"
    /\ UNCHANGED <<cfg, current_timestamp, error_message, response,
                   homeworks, idx, uncaught, exit_code, ts_start,
                   probe_in, probe_out, request, probe_again, anchor, prev>>

Next ==
    \/ Start
    \/ BeginCycle
    \/ Fetch
    \/ Check
    \/ ProcessHomework
    \/ Advance
    \/ Finally
    \/ Sleep

Spec == Init /\ [][Next]_vars

\* The same program with the history of the previous cycle kept.
DupNext ==
    \/ Start
    \/ BeginCycleRemember
    \/ Fetch
    \/ Check
    \/ ProcessHomework
    \/ Advance
    \/ Finally
    \/ Sleep

DupSpec == Init /\ [][DupNext]_vars

(***************************************************************************)
(* A stand-alone call of parse_status on one record.                       *)
(***************************************************************************)
ProbeInit ==
    /\ pc = "probe"
    /\ cfg = [k \in TokenNames |-> "set"]
    /\ now = 1
    /\ current_timestamp = 0
    /\ error_message = <<>>
    /\ response = EmptyBody
    /\ homeworks = <<>>
    /\ idx = 1
    /\ uncaught = FALSE
    /\ exit_code = 0
    /\ log = <<>>
    /\ ts_start = 0
    /\ probe_in \in ProbeRecords
    /\ probe_out = NoResult
    /\ request = NoRequest
    /\ probe_again = NoResult
    /\ anchor = 0
    /\ prev = NoPrev

ParseProbe ==
    /\ pc = "probe"
    /\ probe_out = NoResult
    /\ probe_out' = parse_status(probe_in)
    /\ UNCHANGED <<pc, cfg, now, current_timestamp, error_message, response,
                   homeworks, idx, uncaught, exit_code, log, ts_start,
                   probe_in, request, probe_again, anchor, prev>>

\* The same call once more, after the first one has returned.
ParseProbeAgain ==
    /\ pc = "probe"
    /\ probe_out # NoResult
    /\ probe_again = NoResult
    /\ anchor = 0
    /\ prev = NoPrev
    /\ probe_again' = parse_status(probe_in)
    /\ UNCHANGED <<pc, cfg, now, current_timestamp, error_message, response,
                   homeworks, idx, uncaught, exit_code, log, ts_start,
                   probe_in, probe_out, request, anchor, prev>>

ProbeNext ==
    \/ ParseProbe
    \/ ParseProbeAgain

ProbeSpec == ProbeInit /\ [][ProbeNext]_vars

(***************************************************************************)
(* Properties                                                              *)
(***************************************************************************)
Sel(ev) == SelectSeq(log, LAMBDA e : e.ev = ev)
Count(ev) == Len(Sel(ev))
Last(s) == s[Len(s)]

CycleStates == {"fetch", "check", "loop", "finally", "sleep"}

\* Some event of this cycle failed.
SomeFailure == \E j \in DOMAIN log : ~log[j].ok

\* Fetch, validation and the format and notify of every record succeeded.
FullSuccess ==
    /\ Count("fetch") = 1 /\ Sel("fetch")[1].ok
    /\ Count("validate") = 1 /\ Sel("validate")[1].ok
    /\ \A k \in 1..Len(homeworks) :
         \E j \in DOMAIN log : log[j].ev = "notify" /\ log[j].i = k /\ log[j].ok
    /\ ~SomeFailure

\* How far the cycle is from the end of its sleep: the stage of main, and
\* inside the for-loop the number of records still to process.
Stage(p) ==
    CASE p = "fetch" -> 5
      [] p = "check" -> 4
      [] p = "loop" -> 3
      [] p = "finally" -> 2
      [] p = "sleep" -> 1
      [] OTHER -> 0

Remaining ==
    Stage(pc) * (MaxHw + 3) + (IF pc = "loop" THEN Len(homeworks) + 1 - idx ELSE 0)

\* A step taken inside a cycle stays in the loop and comes closer to the end
\* of the sleep.
CycleStepStaysAndProgresses ==
    pc \in CycleStates =>
        (pc' \in CycleStates \cup {"top"} /\ Remaining' < Remaining)

\* C1: once the tokens have been checked, no failure inside a cycle ends the
\* process: in every state of the loop main has a next step, every step of a
\* cycle stays in the loop and brings the cycle closer to the end of its
\* sleep, and after the sleep the next cycle begins.
C1_LoopNeverTerminates ==
    /\ [](pc \in CycleStates \cup {"top"} => ENABLED Next)
    /\ [][CycleStepStaysAndProgresses]_vars
    /\ [][pc = "top" => pc' = "fetch"]_vars

\* A cycle in which a status notify failed and the error report failed too
\* has slept and is about to start the next cycle.
C1_Witness ==
    /\ pc = "top"
    /\ \E j \in DOMAIN log : log[j].ev = "notify" /\ ~log[j].ok
    /\ \E j \in DOMAIN log : log[j].ev = "report" /\ ~log[j].ok
    /\ Last(log).ev = "sleep"

\* C2: in a cycle where fetch, validation and the format and notify of every
\* record succeeded, current_timestamp is the current time at the end of the
\* cycle: the assignment follows the last notification and precedes the sleep.
C2_TimestampAdvances ==
    /\ (pc \in {"finally", "sleep"} /\ FullSuccess) =>
          /\ current_timestamp = now
          /\ Last(log).ev = "advance"
          /\ Last(log).i = now
    /\ (pc = "top" /\ log # <<>> /\ FullSuccess) =>
          /\ Len(log) >= 2
          /\ log[Len(log) - 1].ev = "advance"
          /\ log[Len(log) - 1].i = current_timestamp
          /\ Last(log).ev = "sleep"

C2_Witness ==
    /\ pc = "sleep"
    /\ FullSuccess
    /\ homeworks = <<Hw("hw1", "rejected")>>
    /\ current_timestamp > ts_start

\* C3: in a cycle that recorded an error, current_timestamp keeps the value
\* it had when the cycle began, also after some records were notified.
C3_ErrorKeepsTimestamp ==
    (pc \in CycleStates \cup {"top"} /\ (Len(error_message) # 0 \/ SomeFailure)) =>
        current_timestamp = ts_start

C3_Witness ==
    /\ pc = "sleep"
    /\ Len(error_message) # 0
    /\ \E j \in DOMAIN log : log[j].ev = "notify" /\ log[j].ok
    /\ now > ts_start

FetchOk == Count("fetch") = 1 /\ Sel("fetch")[1].ok

\* C4: for a valid response whose homeworks list is empty the cycle sends
\* nothing, neither a status notification nor an error report, and records
\* no error message.
C4_EmptyListIsSilent ==
    (FetchOk /\ response = EmptyBody) =>
        /\ Count("notify") = 0
        /\ Count("report") = 0
        /\ Count("error") = 0
        /\ Len(error_message) = 0
        /\ ~SomeFailure
        /\ pc # "check" => (Count("validate") = 1 /\ homeworks = <<>>)

C4_Witness ==
    /\ pc = "top"
    /\ FetchOk
    /\ response = EmptyBody
    /\ Last(log).ev = "sleep"

\* C5: for a response that is a mapping without the homeworks key,
\* check_response raises the malformed-response error (KeyError) and the
\* cycle reports it exactly once: no status notification, and exactly one
\* notify attempt, which carries the error message.
NoHomeworksKey ==
    FetchOk /\ response.isdict /\ response.homeworks.type = "absent"

C5_MissingKeyReportedOnce ==
    (NoHomeworksKey /\ pc # "check") =>
        /\ Count("validate") = 1
        /\ ~Sel("validate")[1].ok
        /\ Sel("validate")[1].msg = <<"KeyError">>
        /\ error_message = <<"Malformed API response", "KeyError">>
        /\ Count("error") = 1
        /\ Count("format") = 0
        /\ Count("notify") = 0
        /\ pc = "finally" => Count("report") = 0
        /\ pc \in {"sleep", "top"} =>
              (Count("report") = 1 /\ Sel("report")[1].msg = error_message)

C5_Witness ==
    /\ pc = "top"
    /\ NoHomeworksKey
    /\ Count("report") = 1

\* C6: when the format or the notify of the record at position k fails, no
\* record after k is formatted or notified in that cycle, every record
\* before k has been notified exactly once, and exactly one error message is
\* recorded.
FailedAt(k) ==
    \E j \in DOMAIN log :
        log[j].ev \in {"format", "notify"} /\ log[j].i = k /\ ~log[j].ok

NotifiesOf(m) == {j \in DOMAIN log : log[j].ev = "notify" /\ log[j].i = m}

C6_FailureAbortsTheRest ==
    \A k \in 1..Len(homeworks) :
        FailedAt(k) =>
            /\ \A j \in DOMAIN log :
                 log[j].ev \in {"format", "notify"} => log[j].i <= k
            /\ \A m \in 1..(k - 1) :
                 /\ Cardinality(NotifiesOf(m)) = 1
                 /\ \A j \in NotifiesOf(m) : log[j].ok
            /\ Count("error") = 1
            /\ Sel("error")[1].msg = error_message
            /\ idx = k

C6_Witness ==
    /\ pc = "top"
    /\ Len(homeworks) = 3
    /\ FailedAt(2)
    /\ \E j \in DOMAIN log : log[j].ev = "notify" /\ log[j].i = 2 /\ ~log[j].ok

\* C7 as stated: every record whose status is present and is not one of
\* approved, reviewing, rejected makes parse_status raise the unknown-status
\* error (TypeError).
C7_AsStated ==
    (probe_out # NoResult /\ probe_in.isdict
       /\ DictGet(probe_in.status) # None
       /\ probe_in.status \notin DOMAIN HOMEWORK_STATUSES) =>
        probe_out.exc = "TypeError"

\* C7 (amended): every record that has a homework_name and whose status is
\* present and is not one of approved, reviewing, rejected makes parse_status
\* raise the unknown-status error (TypeError); a record with a missing field
\* raises KeyError, a different kind.
C7_UnknownStatus ==
    (probe_out # NoResult /\ probe_in.isdict) =>
        /\ (DictGet(probe_in.homework_name) # None
              /\ DictGet(probe_in.status) # None
              /\ probe_in.status \notin DOMAIN HOMEWORK_STATUSES) =>
                 probe_out.exc = "TypeError"
        /\ (DictGet(probe_in.homework_name) = None
              \/ DictGet(probe_in.status) = None) =>
                 probe_out.exc = "KeyError"

C7_Witness ==
    /\ probe_in = Hw("hw1", "lost")
    /\ probe_out.exc = "TypeError"

\* C8: when the notify that reports the cycle's error fails, the failure is
\* swallowed: it is the cycle's only report and its last notify attempt, the
\* recorded error message stays, the cycle sleeps and the next cycle starts
\* with an empty error message.
FailedReport == \E j \in DOMAIN log : log[j].ev = "report" /\ ~log[j].ok

FailedReportSwallowed ==
    FailedReport =>
        /\ pc \in {"sleep", "top"}
        /\ ~uncaught
        /\ Count("report") = 1
        /\ \A j \in DOMAIN log :
             log[j].ev = "report" =>
                 \A j2 \in (j + 1)..Len(log) : log[j2].ev = "sleep"
        /\ Count("error") = 1
        /\ error_message = Sel("error")[1].msg
        /\ error_message = Sel("report")[1].msg

FailedReportThenNextCycle ==
    FailedReport =>
        /\ pc = "sleep" => (pc' = "top" /\ Last(log').ev = "sleep")
        /\ pc = "top" => (pc' = "fetch" /\ Len(error_message') = 0 /\ log' = <<>>)

C8_ReportFailureSwallowed ==
    /\ []FailedReportSwallowed
    /\ [][FailedReportThenNextCycle]_vars

C8_Witness ==
    /\ pc = "top"
    /\ FailedReport
    /\ Sel("fetch")[1].ok
    /\ Last(log).ev = "sleep"

\* C9: if any of the three configuration values is missing (unset or empty),
\* main exits with a non-zero status before the loop: it never fetches,
\* notifies, sleeps or reads the clock; if all three are set, main never
\* takes that exit.
NotSet(v) == v = None \/ v = ""

SomeTokenMissing == \E k \in TokenNames : NotSet(cfg[k])

MissingTokenNeverRuns ==
    /\ SomeTokenMissing =>
         /\ pc \in {"start", "exited"}
         /\ pc = "exited" => exit_code # 0
         /\ log = <<>>
         /\ current_timestamp = 0
         /\ now = 1
    /\ ~SomeTokenMissing => (pc # "exited" /\ exit_code = 0)

MissingTokenExits ==
    pc = "start" => pc' = (IF SomeTokenMissing THEN "exited" ELSE "top")

C9_MissingTokenIsFatal ==
    /\ []MissingTokenNeverRuns
    /\ [][MissingTokenExits]_vars

C9_Witness ==
    /\ pc = "exited"
    /\ cfg = [k \in TokenNames |-> IF k = "TELEGRAM_CHAT_ID" THEN None ELSE "set"]
    /\ exit_code = 1

\* C10: every cycle, successful or not, makes exactly one fetch, first, and
\* sleeps exactly once, for RETRY_TIME, after all of its notify attempts; a
\* fetch is only ever reached through the top of the loop, and the top only
\* through the sleep.
OneFetchOneSleep ==
    /\ pc = "fetch" => log = <<>>
    /\ pc \in {"check", "loop", "finally", "sleep"} =>
         /\ Count("fetch") = 1
         /\ log[1].ev = "fetch"
         /\ Count("sleep") = 0
    /\ (pc = "top" /\ log # <<>>) =>
         /\ Count("fetch") = 1
         /\ log[1].ev = "fetch"
         /\ Count("sleep") = 1
         /\ Last(log).ev = "sleep"
         /\ Last(log).i = RETRY_TIME

FetchOnlyAfterSleep ==
    /\ (pc' = "fetch" /\ pc # "fetch") => pc = "top"
    /\ (pc' = "top" /\ pc # "top") => pc \in {"start", "sleep"}
    /\ (pc = "top" /\ pc' = "fetch") => (log # <<>> \/ now = current_timestamp)

C10_OneFetchOneSleepPerCycle ==
    /\ []OneFetchOneSleep
    /\ [][FetchOnlyAfterSleep]_vars

C10_Witness ==
    /\ pc = "top"
    /\ Count("fetch") = 1
    /\ ~Sel("fetch")[1].ok
    /\ Count("report") = 1
    /\ Last(log).ev = "sleep"

\* The HTTP exchange of this cycle did not give a decodable 200 answer.
FetchFailedInput ==
    /\ request # NoRequest
    /\ \/ request.http.net # "ok"
       \/ request.http.status_code # HTTP_OK
       \/ ~request.http.body.json

\* C11: when the fetch fails (transport failure, status other than 200,
\* undecodable body) the cycle neither validates nor formats nor sends a
\* status notification, and it makes exactly one attempt to report the
\* API-error message, before its sleep.
C11_FetchFailureReportedOnce ==
    FetchFailedInput =>
        /\ pc \in {"finally", "sleep", "top"}
        /\ Count("validate") = 0
        /\ Count("format") = 0
        /\ Count("notify") = 0
        /\ Count("error") = 1
        /\ error_message \in {<<"API service error", "APIResponseError">>,
                              <<"API service error", "APIStatusCodeError">>}
        /\ pc = "finally" => Count("report") = 0
        /\ pc = "sleep" =>
              /\ Count("report") = 1
              /\ Last(log).ev = "report"
              /\ Last(log).msg = error_message
        /\ pc = "top" =>
              /\ Count("report") = 1
              /\ log[Len(log) - 1].ev = "report"
              /\ log[Len(log) - 1].msg = error_message
              /\ Last(log).ev = "sleep"

C11_Witness ==
    /\ pc = "top"
    /\ request.http.net = "ConnectionError"
    /\ Count("report") = 1
    /\ Last(log).ev = "sleep"

\* C12: for every HTTP answer whose status code is not 200, whether or not
\* its body is valid JSON, get_api_answer raises APIStatusCodeError (not the
\* APIResponseError of a transport or decoding failure) and no parsed body
\* reaches the loop.
C12_Non200IsStatusCodeError ==
    (request # NoRequest /\ request.http.net = "ok"
       /\ request.http.status_code # HTTP_OK) =>
        /\ Count("fetch") = 1
        /\ ~Sel("fetch")[1].ok
        /\ Sel("fetch")[1].msg = <<"APIStatusCodeError">>
        /\ error_message = <<"API service error", "APIStatusCodeError">>
        /\ response = EmptyBody
        /\ Count("validate") = 0

C12_Witness ==
    /\ pc = "finally"
    /\ request.http.status_code = 404
    /\ request.http.body.json
    /\ Sel("fetch")[1].msg = <<"APIStatusCodeError">>

\* A record with a name and a status of the catalog.
WellFormed(h) ==
    /\ h.isdict
    /\ DictGet(h.homework_name) # None
    /\ DictGet(h.status) # None
    /\ h.status \in DOMAIN HOMEWORK_STATUSES

Contains(msg, text) == \E p \in DOMAIN msg : msg[p] = text

\* The answer of this cycle is a list of well-formed records and no send has
\* failed so far.
AllGood ==
    /\ FetchOk
    /\ response.isdict
    /\ response.homeworks.type = "array"
    /\ \A k \in DOMAIN response.homeworks.items :
         WellFormed(response.homeworks.items[k])
    /\ \A j \in DOMAIN log : log[j].ev = "notify" => log[j].ok

\* C13: for a valid response of n well-formed records with every send
\* succeeding, the cycle makes exactly n notify calls, in the order of the
\* list, the i-th message containing the i-th record's name and the catalog
\* verdict of its status, and it makes no error report.
C13_OneNotifyPerRecordInOrder ==
    (AllGood /\ pc # "check") =>
        LET items == response.homeworks.items
            sent == Sel("notify")
        IN /\ Len(sent) = (IF pc = "loop" THEN idx - 1 ELSE Len(items))
           /\ \A i \in DOMAIN sent :
                /\ sent[i].i = i
                /\ Contains(sent[i].msg, items[i].homework_name)
                /\ Contains(sent[i].msg, HOMEWORK_STATUSES[items[i].status])
           /\ Count("report") = 0
           /\ Count("error") = 0

C13_Witness ==
    /\ pc = "top"
    /\ AllGood
    /\ response.homeworks.items =
         <<Hw("hw1", "rejected"), Hw("hw2", "approved"), Hw("hw1", "reviewing")>>
    /\ Count("notify") = 3

\* C14: check_response raises the malformed-response error (TypeError or
\* KeyError) when the response is not a mapping, when the homeworks key is
\* absent and when homeworks is not a list; in every other case it returns
\* the homeworks list unchanged, whatever its elements are.
Validated == Count("validate") = 1

C14_ValidateReturnsListUnchanged ==
    Validated =>
        LET v == Sel("validate")[1]
            shape_error == \/ ~response.isdict
                           \/ response.homeworks.type # "array"
        IN /\ v.ok = ~shape_error
           /\ shape_error =>
                /\ v.msg \in {<<"TypeError">>, <<"KeyError">>}
                /\ error_message = <<"Malformed API response", v.msg[1]>>
                /\ homeworks = <<>>
           /\ ~shape_error => homeworks = response.homeworks.items

C14_Witness ==
    /\ pc = "loop"
    /\ Validated
    /\ homeworks = <<NotADict, Hw("hw1", "lost"), Hw(Absent, "approved")>>

Running == pc \in CycleStates \cup {"top"}

\* C16: the from_date of every cycle's fetch is current_timestamp as it
\* stood when the cycle began, and that value is the clock at the assignment
\* of the last cycle without error, or at the start of main when there was
\* none; it is never zero, so the current time is never substituted.
FromDateIsLastSuccess ==
    Running =>
        /\ current_timestamp = anchor
        /\ Count("advance") = 0 => ts_start = anchor
        /\ Count("fetch") = 1 =>
             /\ Sel("fetch")[1].i = ts_start
             /\ Sel("fetch")[1].i # 0

AnchorMovesOnlyOnSuccess ==
    anchor' # anchor =>
        \/ pc = "start"
        \/ pc = "loop" /\ FullSuccess' /\ anchor' = now /\ pc' = "finally"

C16_FromDateIsLastSuccessTime ==
    /\ []FromDateIsLastSuccess
    /\ [][AnchorMovesOnlyOnSuccess]_vars

\* A cycle that follows a failed one asks again from the old timestamp,
\* although the clock has moved on.
C16_Witness ==
    /\ pc = "check"
    /\ Sel("fetch")[1].i = ts_start
    /\ ts_start > 1
    /\ request.issued >= ts_start + RETRY_TIME

\* C17 as stated: after a cycle without error the from_date of the next
\* fetch (current_timestamp) is not later than the moment this cycle's
\* request was issued.
C17_AsStated ==
    (pc \in {"finally", "sleep", "top"} /\ FullSuccess /\ request # NoRequest) =>
        current_timestamp <= request.issued

\* C19: error_message is empty when a cycle starts, and a cycle attempts an
\* error report if and only if that same cycle recorded an error.
C19_ReportIffErrorThisCycle ==
    /\ pc = "fetch" => Len(error_message) = 0
    /\ pc \in {"fetch", "check", "loop"} =>
         (Count("error") = 0 /\ Len(error_message) = 0)
    /\ pc \in CycleStates => (Count("error") >= 1 <=> Len(error_message) # 0)
    /\ pc \in {"fetch", "check", "loop", "finally"} => Count("report") = 0
    /\ (pc = "sleep" \/ (pc = "top" /\ log # <<>>)) =>
         /\ Count("report") <= 1
         /\ Count("report") = 1 <=> Count("error") >= 1

\* A cycle without error that follows a cycle with an error (the timestamp
\* was still the old one when it began) has reported nothing.
C19_Witness ==
    /\ pc = "sleep"
    /\ FullSuccess
    /\ Count("report") = 0
    /\ ts_start + RETRY_TIME <= now
    /\ ts_start + RETRY_TIME <= request.issued

\* C20: with a positive clock that never goes backwards, current_timestamp
\* is positive, never ahead of the clock and never decreases while the loop
\* runs, so get_api_answer is never called with a zero timestamp.
TimestampPositive ==
    Running =>
        /\ current_timestamp > 0
        /\ current_timestamp <= now
        /\ ts_start > 0
        /\ ts_start <= current_timestamp

TimestampNeverDecreases ==
    /\ now' >= now
    /\ Running => current_timestamp' >= current_timestamp
    /\ (pc = "fetch" /\ pc' # "fetch") =>
         FromDate(current_timestamp, now) = current_timestamp

C20_TimestampPositiveMonotone ==
    /\ []TimestampPositive
    /\ [][TimestampNeverDecreases]_vars

C20_Witness ==
    /\ pc = "top"
    /\ log # <<>>
    /\ ts_start > 1
    /\ current_timestamp >= ts_start + RETRY_TIME

\* C18 as stated, in the case it names: a record that was notified
\* successfully in the previous cycle, where a later record then failed, is
\* not notified again in this cycle when the API returns it again for the
\* unchanged from_date.
C18_AsStated ==
    (prev.delivered /\ prev.failed /\ prev.from_date = ts_start) =>
        \A j \in DOMAIN log :
            (log[j].ev = "notify" /\ log[j].ok) =>
                homeworks[log[j].i] # prev.first

====
